---- MODULE Spec2Model ----
(***************************************************************************)
(* Model of streamlit_app.py: the five-stage integration workflow          *)
(* (Configure -> Generate -> Review -> Sandbox -> Deploy), the generation  *)
(* orchestrator with its demo fallback, and the insight extractor.         *)
(*                                                                         *)
(* One user action (a click or an input) makes Streamlit run the script    *)
(* from the top with that widget's value set; st.rerun() aborts the run    *)
(* and starts another one with no widget event.  A button returns True     *)
(* only in the run caused by its own click.  Each action below is one      *)
(* user action together with the run(s) it causes.                         *)
(***************************************************************************)
EXTENDS Integers, Sequences, FiniteSets, TLC

VARIABLES
    step,            \* st.session_state.step
    generated_code,  \* st.session_state.generated_code: {} is None, {t} is the text t
    api_doc_url,     \* st.session_state.api_doc_url
    auth_method,     \* st.session_state.auth_method
    sandbox_passed,  \* st.session_state.sandbox_passed
    ai_insights,     \* st.session_state.ai_insights
    anthropic_key,   \* st.session_state.get('anthropic_key'): "" when unset
    url_widget,      \* value kept by the URL text_input; {} when the widget has no state
    key_widget,      \* value kept by the sidebar API-key text_input
    secrets,         \* what st.secrets holds for ANTHROPIC_API_KEY
    surfaced,        \* what the last script run rendered: messages, nested buttons
    last,            \* the last user action
    calls,           \* what that action executed: tests, reset branch, generations
    visit_tested,    \* a run-tests action completed since step 4 was last entered
    ever_tested,     \* a run-tests action completed since sandbox_passed was last cleared
    code_tested,     \* a run-tests action completed since generated_code was last produced
    quality_report,  \* the report the last run rendered at Review: {} or {report}
    capability_text  \* the text the capability returned in the last action: {} or {t}

vars == <<step, generated_code, api_doc_url, auth_method, sandbox_passed,
          ai_insights, anthropic_key, url_widget, key_widget, secrets,
          surfaced, last, calls, visit_tested, ever_tested, code_tested,
          quality_report, capability_text>>

-----------------------------------------------------------------------------
(* Bounds and value sets *)

MaxSteps == 5

(* Longest free part of a text in the specification of the text functions *)
MaxLen == 2

None == {}
Some(t) == {t}

DefaultUrl == "https://developer.calendly.com/api-docs"
Urls == {DefaultUrl, "", "https://api.example.com/docs"}

AuthMethods == {"OAuth 2.0", "API Key", "Bearer Token", "Auto-detect"}

Keys == {"", "sk-1"}

SecretStates == {"lookup_fails", "absent", "present"}

(* A text is a sequence of fragments; a substring test is a test for a     *)
(* fragment.  lower() maps a fragment to its lower-case form.              *)
Fragments == {"OAuth", "oauth", "OAUTH", "cursor", "Cursor", "offset",
              "rate_limit", "RateLimit", "retry", "def get_", "def list_",
              "os.environ", "hardcode", "Hardcode", "try:", "except",
              "pagination", "429", "logging", "logger", "Logger", "type hints",
              ":", "x"}

Lower(f) ==
    CASE f = "OAuth" -> "oauth"
      [] f = "OAUTH" -> "oauth"
      [] f = "Cursor" -> "cursor"
      [] f = "RateLimit" -> "ratelimit"
      [] f = "Hardcode" -> "hardcode"
      [] f = "Logger" -> "logger"
      [] OTHER -> f

(* f is a substring of the fragment frag: the only fragment that contains  *)
(* another one is "try:", which contains ":"                               *)
Has(frag, f) == frag = f \/ (frag = "try:" /\ f = ":")

Contains(code, f) == \E i \in 1..Len(code) : Has(code[i], f)
ContainsLower(code, f) == \E i \in 1..Len(code) : Has(Lower(code[i]), f)

(* code[:1000], line 619: the window is HeadWindow fragments long *)
HeadWindow == 2
HeadOf(code) == SubSeq(code, 1, IF Len(code) < HeadWindow THEN Len(code) ELSE HeadWindow)

RECURSIVE Count(_, _)
Count(code, f) ==
    IF code = <<>> THEN 0
    ELSE (IF Head(code) = f THEN 1 ELSE 0) + Count(Tail(code), f)

(* Texts the capability returns in the workflow specification *)
CapTexts == {<<>>, <<"cursor", "def get_", "x">>, <<"OAUTH", "retry", "RateLimit">>}

(* Outcomes of client.messages.create and of reading message.content[0].text *)
Outcomes == {[kind |-> "error", text |-> <<>>], [kind |-> "no_content", text |-> <<>>]}
            \cup {[kind |-> "text", text |-> t] : t \in CapTexts}

-----------------------------------------------------------------------------
(* Pure functions of the source *)

OAuthLine == "Detected OAuth 2.0 with refresh token flow"
CursorLine == "Pagination uses cursor-based method"
OffsetLine == "Pagination uses offset-based method"
RateLimitLine == "Rate limiting implemented with backoff"
RetryLine == "Automatic retry logic included"
MethodsLine(n) == "Found " \o ToString(n) \o " data retrieval methods"

extract_insights_RetryFirst(code, api_url) ==
    LET endpoint_count == Count(code, "def get_") + Count(code, "def list_")
    IN  (IF ContainsLower(code, "retry") THEN <<RetryLine>> ELSE <<>>)
        \o (IF Contains(code, "OAuth") \/ Contains(code, "oauth")
            THEN <<OAuthLine>> ELSE <<>>)
        \o (IF ContainsLower(code, "cursor") THEN <<CursorLine>> ELSE <<>>)
        \o (IF ContainsLower(code, "offset") THEN <<OffsetLine>> ELSE <<>>)
        \o (IF ContainsLower(code, "rate_limit") \/ Contains(code, "RateLimit")
            THEN <<RateLimitLine>> ELSE <<>>)
        \o (IF endpoint_count > 0 THEN <<MethodsLine(endpoint_count)>> ELSE <<>>)

extract_insights(code, api_url) ==
    LET endpoint_count == Count(code, "def get_") + Count(code, "def list_")
    IN  (IF Contains(code, "OAuth") \/ Contains(code, "oauth")
            THEN <<OAuthLine>> ELSE <<>>)
        \o (IF ContainsLower(code, "cursor") THEN <<CursorLine>> ELSE <<>>)
        \o (IF ContainsLower(code, "offset") THEN <<OffsetLine>> ELSE <<>>)
        \o (IF ContainsLower(code, "rate_limit") \/ Contains(code, "RateLimit")
            THEN <<RateLimitLine>> ELSE <<>>)
        \o (IF ContainsLower(code, "retry") THEN <<RetryLine>> ELSE <<>>)
        \o (IF endpoint_count > 0 THEN <<MethodsLine(endpoint_count)>> ELSE <<>>)

(* The fixed text generate_demo_code returns, as the fragments it contains *)
DemoCode == <<":", "OAuth", "logging", "logger", "oauth", "os.environ", "try:",
              "except", "retry", "429", "pagination", "def get_", "def get_",
              "def list_", "def get_", "def get_", "def get_", "hardcode", "x">>

DemoInsights == <<OAuthLine,
                  "Found 12 relevant endpoints for user data",
                  CursorLine,
                  "Rate limit: 500 requests/minute">>

generate_demo_code_AuthSensitive(api_url, auth) ==
    [code |-> DemoCode,
     ai_insights |-> IF auth = "OAuth 2.0" THEN DemoInsights ELSE Tail(DemoInsights)]

(* generate_demo_code: writes the fixed insight list, returns the fixed text *)
generate_demo_code(api_url, auth) ==
    [code |-> DemoCode, ai_insights |-> DemoInsights]

-----------------------------------------------------------------------------
(* analyze_code_quality, lines 610-626 *)

Status(passed) == IF passed THEN "Passed" ELSE "Warning"

CheckNames == {"security", "error_handling", "pagination", "rate_limiting",
               "logging", "best_practices"}

Metrics(code) ==
    [security |-> Status(Contains(code, "os.environ") /\ ~ContainsLower(code, "hardcode")),
     error_handling |-> Status(Contains(code, "try:") /\ Contains(code, "except")),
     pagination |-> Status(ContainsLower(code, "pagination") \/ ContainsLower(code, "cursor")),
     rate_limiting |-> Status(ContainsLower(code, "rate_limit") \/ Contains(code, "429")),
     logging |-> Status(ContainsLower(code, "logging") \/ Contains(code, "logger")),
     best_practices |-> Status(Contains(code, "type hints") \/ Contains(HeadOf(code), ":"))]

PassedCount(metrics) == Cardinality({n \in DOMAIN metrics : metrics[n] = "Passed"})

(* f"{score:.1f}", line 814: the score num/den shown in tenths, to nearest *)
Format1(score) == (score.num * 20 + score.den) \div (2 * score.den)

(* A score is the fraction num/den.  Mutant: the score rounded to tenths *)
Score_Rounded(passed, total) ==
    [num |-> Format1([num |-> passed * 10, den |-> total]), den |-> 10]

(* Line 624: (passed / len(metrics)) * 10 *)
Score(passed, total) == [num |-> passed * 10, den |-> total]

analyze_code_quality(code) ==
    LET metrics == Metrics(code)
    IN  [metrics |-> metrics,
         score |-> Score(PassedCount(metrics), Cardinality(DOMAIN metrics))]

-----------------------------------------------------------------------------
(* The credential test of line 97; st.secrets raises when it cannot be read *)
SecretsLookupRaises(sec) == sec = "lookup_fails"
NoCredential(sec, key) == sec # "present" /\ key = ""

generate_integration_code_PartialInsights(api_url, auth, sec, key, g, old_insights) ==
    IF SecretsLookupRaises(sec)
    THEN [raised |-> TRUE, code |-> None, ai_insights |-> old_insights,
          shown |-> {}, invoked |-> FALSE]
    ELSE IF NoCredential(sec, key)
    THEN LET d == generate_demo_code(api_url, auth)
         IN  [raised |-> FALSE, code |-> Some(d.code), ai_insights |-> d.ai_insights,
              shown |-> {"demo_mode_warning"}, invoked |-> FALSE]
    ELSE IF g.kind = "text"
    THEN [raised |-> FALSE, code |-> Some(g.text),
          ai_insights |-> extract_insights(g.text, api_url),
          shown |-> {}, invoked |-> TRUE]
    ELSE LET d == generate_demo_code(api_url, auth)
         IN  [raised |-> FALSE, code |-> Some(d.code),
              ai_insights |-> extract_insights(g.text, api_url),
              shown |-> {"generation_error", "fallback_info"}, invoked |-> TRUE]

(* Mutant: the insights of a returned text are not stored *)
generate_integration_code_StaleInsights(api_url, auth, sec, key, g, old_insights) ==
    IF SecretsLookupRaises(sec)
    THEN [raised |-> TRUE, code |-> None, ai_insights |-> old_insights,
          shown |-> {}, invoked |-> FALSE]
    ELSE IF NoCredential(sec, key)
    THEN LET d == generate_demo_code(api_url, auth)
         IN  [raised |-> FALSE, code |-> Some(d.code), ai_insights |-> d.ai_insights,
              shown |-> {"demo_mode_warning"}, invoked |-> FALSE]
    ELSE IF g.kind = "text"
    THEN [raised |-> FALSE, code |-> Some(g.text), ai_insights |-> old_insights,
          shown |-> {}, invoked |-> TRUE]
    ELSE LET d == generate_demo_code(api_url, auth)
         IN  [raised |-> FALSE, code |-> Some(d.code), ai_insights |-> d.ai_insights,
              shown |-> {"generation_error", "fallback_info"}, invoked |-> TRUE]

(* generate_integration_code: g is what the capability does if it is called; *)
(* old_insights is session ai_insights before the call.  The result says    *)
(* whether the call raised, the text returned, session ai_insights after,   *)
(* the messages shown and whether the capability was invoked.               *)
generate_integration_code(api_url, auth, sec, key, g, old_insights) ==
    IF SecretsLookupRaises(sec)
    THEN [raised |-> TRUE, code |-> None, ai_insights |-> old_insights,
          shown |-> {}, invoked |-> FALSE]
    ELSE IF NoCredential(sec, key)
    THEN LET d == generate_demo_code(api_url, auth)
         IN  [raised |-> FALSE, code |-> Some(d.code), ai_insights |-> d.ai_insights,
              shown |-> {"demo_mode_warning"}, invoked |-> FALSE]
    ELSE IF g.kind = "text"
    THEN [raised |-> FALSE, code |-> Some(g.text),
          ai_insights |-> extract_insights(g.text, api_url),
          shown |-> {}, invoked |-> TRUE]
    ELSE LET d == generate_demo_code(api_url, auth)
         IN  [raised |-> FALSE, code |-> Some(d.code), ai_insights |-> d.ai_insights,
              shown |-> {"generation_error", "fallback_info"}, invoked |-> TRUE]


-----------------------------------------------------------------------------
(* The script: one run of the module body and main() on the session r, with *)
(* the widget event ev, the secrets store sec and capability outcome g.     *)

NoEvent == [id |-> "none", val |-> ""]
Event(id) == [id |-> id, val |-> ""]
Input(id, v) == [id |-> id, val |-> v]

Log(r, what) == [r EXCEPT !.calls = Append(@, what)]

(* An assignment to st.session_state.step in a button branch *)
GoTo(r, n) == Log([r EXCEPT !.step = n], "step")

(* An uncaught exception ends the run: the error box replaces the page rest *)
Crash(r) == [r EXCEPT !.surfaced = {"exception"}]
Crashed == "exception" \in surfaced

(* Sidebar: the API-key input; a non-empty value is stored in the session *)
Sidebar(r, ev) ==
    LET api_key == IF ev.id = "key" THEN ev.val ELSE r.key_widget
    IN  [r EXCEPT !.key_widget = api_key,
                  !.anthropic_key = IF api_key # "" THEN api_key ELSE @,
                  !.surfaced = {},
                  !.quality_report = {}]

(* st.text_input(value=DefaultUrl): the edited value, else the value the   *)
(* widget kept from the previous run, else the default                     *)
TextInputValue(r, ev) ==
    IF ev.id = "url" THEN ev.val
    ELSE IF r.url_widget = {} THEN DefaultUrl
    ELSE CHOOSE u \in r.url_widget : TRUE

(* A run that completes drops the state of the widgets it did not render *)
Finish(r) == [r EXCEPT !.url_widget = IF r.step = 1 THEN @ ELSE {}]

(* Line 899: the forward button of Sandbox is enabled iff sandbox_passed *)
DeployFwdEnabled_Ungated(r) == TRUE

DeployFwdEnabled(r) == r.sandbox_passed

(* Lines 1023-1025: the body of the 'Start New Integration' branch *)
ResetFields(r) ==
    [r EXCEPT !.step = 1, !.generated_code = None, !.sandbox_passed = FALSE]

RECURSIVE main(_, _, _, _)

(* Lines 684-715: the URL input and the authentication buttons *)
Step1Fields(r, ev) ==
    LET api_url == TextInputValue(r, ev)
    IN  [r EXCEPT !.api_doc_url = api_url,
                  !.url_widget = {api_url},
                  !.auth_method = IF ev.id = "auth" THEN ev.val ELSE @]

(* Mutant: the forward click calls the generator before it reruns *)
Step1_GeneratesBeforeRerun(r, ev, sec, g) ==
    LET r1 == Step1Fields(r, ev)
    IN  IF ev.id = "generate"
        THEN main(GoTo(Log(r1, "generate"), 2), NoEvent, sec, g)
        ELSE Finish(r1)

(* Mutant: the forward click goes to Review without a generation *)
Step1_SkipsGeneration(r, ev, sec, g) ==
    LET r1 == Step1Fields(r, ev)
    IN  IF ev.id = "generate"
        THEN main(GoTo(r1, 3), NoEvent, sec, g)
        ELSE Finish(r1)

Step1(r, ev, sec, g) ==
    LET r1 == Step1Fields(r, ev)
    IN  IF ev.id = "generate"
        THEN main(GoTo(r1, 2), NoEvent, sec, g)
        ELSE Finish(r1)

(* Mutant: a generation clears sandbox_passed *)
Step2_ClearsSandbox(r, ev, sec, g) ==
    LET res == generate_integration_code(r.api_doc_url, r.auth_method, sec,
                                         r.anthropic_key, g, r.ai_insights)
        r0 == Log(IF res.invoked THEN Log(r, "capability") ELSE r, "generate")
        r1 == IF res.invoked /\ g.kind # "text" THEN Log(r0, "capability_failed") ELSE r0
        r2 == [r1 EXCEPT !.ai_insights = res.ai_insights,
                         !.generated_code = res.code,
                         !.capability_text = IF res.invoked /\ g.kind = "text"
                                             THEN Some(g.text) ELSE None,
                         !.sandbox_passed = FALSE,
                         !.surfaced = res.shown \cup {"generation_complete"}]
    IN  IF res.raised THEN Crash(r1)
        ELSE IF ev.id = "review"
        THEN main(GoTo(r2, 3), NoEvent, sec, g)
        ELSE Finish(r2)

Step2(r, ev, sec, g) ==
    LET res == generate_integration_code(r.api_doc_url, r.auth_method, sec,
                                         r.anthropic_key, g, r.ai_insights)
        r0 == Log(IF res.invoked THEN Log(r, "capability") ELSE r, "generate")
        r1 == IF res.invoked /\ g.kind # "text" THEN Log(r0, "capability_failed") ELSE r0
        r2 == [r1 EXCEPT !.ai_insights = res.ai_insights,
                         !.generated_code = res.code,
                         !.capability_text = IF res.invoked /\ g.kind = "text"
                                             THEN Some(g.text) ELSE None,
                         !.surfaced = res.shown \cup {"generation_complete"}]
    IN  IF res.raised THEN Crash(r1)
        ELSE IF ev.id = "review"
        THEN main(GoTo(r2, 3), NoEvent, sec, g)
        ELSE Finish(r2)

(* Lines 812-824: the quality report as Review renders it *)
Report(code) ==
    LET q == analyze_code_quality(code)
    IN  [metrics |-> q.metrics, score |-> q.score, shown |-> Format1(q.score)]

Step3_BackClears(r, ev, sec, g) ==
    IF r.generated_code = None THEN Crash(r)
    ELSE LET r1 == [r EXCEPT !.quality_report = {Report(t) : t \in r.generated_code}]
         IN  IF ev.id = "back"
             THEN main(GoTo([r1 EXCEPT !.generated_code = None], 1), NoEvent, sec, g)
             ELSE IF ev.id = "to_sandbox"
             THEN main(GoTo(r1, 4), NoEvent, sec, g)
             ELSE Finish(r1)

Step3(r, ev, sec, g) ==
    IF r.generated_code = None THEN Crash(r)
    ELSE LET r1 == [r EXCEPT !.quality_report = {Report(t) : t \in r.generated_code}]
         IN  IF ev.id = "back"
             THEN main(GoTo(r1, 1), NoEvent, sec, g)
             ELSE IF ev.id = "to_sandbox"
             THEN main(GoTo(r1, 4), NoEvent, sec, g)
             ELSE Finish(r1)

(* Lines 867-880: the fixed test cases and the line each one shows *)
Tests == <<[name |-> "Authentication", status |-> "Passed"],
           [name |-> "Get Users", status |-> "Passed"],
           [name |-> "Pagination", status |-> "Passed"],
           [name |-> "Error Handling", status |-> "Passed"]>>

TestLine(name, status) == name \o ": " \o status

(* Mutant: a test fails on an empty generated text *)
TestsShown_InspectsCode(code) ==
    {TestLine(Tests[i].name, IF code = Some(<<>>) THEN "Failed" ELSE Tests[i].status) :
        i \in 1..Len(Tests)}

TestsShown(code) == {TestLine(Tests[i].name, Tests[i].status) : i \in 1..Len(Tests)}

Step4(r, ev, sec, g) ==
    LET r1 == IF ev.id = "run_tests"
              THEN Log([r EXCEPT !.sandbox_passed = TRUE,
                                 !.surfaced = TestsShown(r.generated_code)
                                              \cup {"all_tests_passed"}],
                       "run_tests")
              ELSE r
    IN  IF ev.id = "back_to_code"
        THEN main(GoTo(r1, 3), NoEvent, sec, g)
        ELSE IF DeployFwdEnabled(r1)
        THEN IF ev.id = "deploy_fwd"
             THEN main(GoTo(r1, 5), NoEvent, sec, g)
             ELSE Finish(r1)
        ELSE Finish([r1 EXCEPT !.surfaced = @ \cup {"run_tests_first"}])

Step5_Unnested(r, ev, sec, g) ==
    IF r.generated_code = None THEN Crash(r)
    ELSE LET r1 == IF ev.id = "deploy"
                   THEN Log([r EXCEPT !.surfaced = {"deploy_success"}], "deploy")
                   ELSE r
         IN  IF ev.id = "start_new"
             THEN main(Log(Log(ResetFields(r1), "reset"), "step"), NoEvent, sec, g)
             ELSE Finish([r1 EXCEPT !.surfaced = @ \cup {"start_new_button"}])

Step5(r, ev, sec, g) ==
    IF r.generated_code = None THEN Crash(r)
    ELSE IF ev.id = "deploy"
    THEN LET r1 == Log([r EXCEPT !.surfaced = {"deploy_success", "start_new_button"}],
                       "deploy")
         IN  IF ev.id = "start_new"
             THEN main(Log(Log(ResetFields(r1), "reset"), "step"), NoEvent, sec, g)
             ELSE Finish(r1)
    ELSE Finish(r)

main(r0, ev, sec, g) ==
    LET r == Sidebar(r0, ev)
    IN  CASE r.step = 1 -> Step1(r, ev, sec, g)
          [] r.step = 2 -> Step2(r, ev, sec, g)
          [] r.step = 3 -> Step3(r, ev, sec, g)
          [] r.step = 4 -> Step4(r, ev, sec, g)
          [] OTHER -> Step5(r, ev, sec, g)


-----------------------------------------------------------------------------
(* State machine *)

(* Lines 76-88: the session defaults *)
Defaults_SandboxPassed ==
    [step |-> 1, generated_code |-> None, api_doc_url |-> "",
     auth_method |-> "OAuth 2.0", sandbox_passed |-> TRUE, ai_insights |-> <<>>,
     anthropic_key |-> "", url_widget |-> {}, key_widget |-> "",
     surfaced |-> {}, calls |-> <<>>, quality_report |-> {},
     capability_text |-> None]

Defaults ==
    [step |-> 1, generated_code |-> None, api_doc_url |-> "",
     auth_method |-> "OAuth 2.0", sandbox_passed |-> FALSE, ai_insights |-> <<>>,
     anthropic_key |-> "", url_widget |-> {}, key_widget |-> "",
     surfaced |-> {}, calls |-> <<>>, quality_report |-> {},
     capability_text |-> None]

Session ==
    [step |-> step, generated_code |-> generated_code, api_doc_url |-> api_doc_url,
     auth_method |-> auth_method, sandbox_passed |-> sandbox_passed,
     ai_insights |-> ai_insights, anthropic_key |-> anthropic_key,
     url_widget |-> url_widget, key_widget |-> key_widget,
     surfaced |-> surfaced, calls |-> <<>>, quality_report |-> quality_report,
     capability_text |-> None]

Did(r, what) == \E i \in 1..Len(r.calls) : r.calls[i] = what

(* The capability answers only in a run that reaches stage 2 *)
Draws(ev) ==
    IF step = 2 \/ ev.id = "generate" THEN Outcomes
    ELSE {[kind |-> "error", text |-> <<>>]}

(* The user action `name` with widget event ev: the session after its runs *)
Commit(name, r) ==
    /\ step' = r.step
    /\ generated_code' = r.generated_code
    /\ api_doc_url' = r.api_doc_url
    /\ auth_method' = r.auth_method
    /\ sandbox_passed' = r.sandbox_passed
    /\ ai_insights' = r.ai_insights
    /\ anthropic_key' = r.anthropic_key
    /\ url_widget' = r.url_widget
    /\ key_widget' = r.key_widget
    /\ surfaced' = r.surfaced
    /\ calls' = r.calls
    /\ quality_report' = r.quality_report
    /\ capability_text' = r.capability_text
    /\ last' = name
    /\ visit_tested' = IF Did(r, "run_tests") THEN TRUE
                       ELSE IF step # 4 /\ r.step = 4 THEN FALSE
                       ELSE visit_tested
    /\ ever_tested' = IF Did(r, "reset") THEN FALSE
                      ELSE IF Did(r, "run_tests") THEN TRUE
                      ELSE ever_tested
    /\ code_tested' = IF Did(r, "run_tests") THEN TRUE
                      ELSE IF r.generated_code # generated_code \/ Did(r, "generate")
                      THEN FALSE
                      ELSE code_tested
    /\ UNCHANGED secrets

Act(name, ev) ==
    \E g \in Draws(ev) : Commit(name, main(Session, ev, secrets, g))

(* The session when a run that generates is stopped by a new widget event: *)
(* Streamlit raises the rerun request at the next element it emits, here   *)
(* the exit of the spinner of line 160, after line 174 and before line 764 *)
Interrupted(r, ev, sec, g) ==
    LET r0 == Sidebar(r, ev)
        r1 == IF r0.step = 1 THEN [Step1Fields(r0, ev) EXCEPT !.step = 2] ELSE r0
        res == generate_integration_code(r1.api_doc_url, r1.auth_method, sec,
                                         r1.anthropic_key, g, r1.ai_insights)
    IN  IF res.invoked /\ g.kind = "text"
        THEN [r1 EXCEPT !.ai_insights = res.ai_insights]
        ELSE r1

(* The state after the first script run of a new session *)
Init ==
    /\ secrets \in SecretStates
    /\ LET r == main(Defaults, NoEvent, secrets, CHOOSE g \in Outcomes : TRUE)
       IN  /\ step = r.step
           /\ generated_code = r.generated_code
           /\ api_doc_url = r.api_doc_url
           /\ auth_method = r.auth_method
           /\ sandbox_passed = r.sandbox_passed
           /\ ai_insights = r.ai_insights
           /\ anthropic_key = r.anthropic_key
           /\ url_widget = r.url_widget
           /\ key_widget = r.key_widget
           /\ surfaced = r.surfaced
           /\ calls = r.calls
           /\ quality_report = r.quality_report
           /\ capability_text = r.capability_text
    /\ last = "open"
    /\ visit_tested = FALSE
    /\ ever_tested = FALSE
    /\ code_tested = FALSE

(* Sidebar, every stage: typing into the API-key input *)
EnterKey == \E k \in Keys : k # key_widget /\ Act("EnterKey", Input("key", k))

(* A widget event while a run that generates is in progress: the run       *)
(* (started by the forward click of stage 1, or by any event at stage 2)   *)
(* is stopped and the script runs again with the new event, a key entry or *)
(* a click on the forward button still shown from the previous run         *)
EventDuringGeneration ==
    /\ step \in {1, 2} /\ ~Crashed
    /\ \E ev \in (IF step = 1 THEN {Event("generate")} ELSE {Event("review"), NoEvent}),
          ev2 \in {Input("key", k) : k \in Keys}
                  \cup (IF step = 2 THEN {Event("review")} ELSE {}),
          g1 \in Outcomes, g2 \in Outcomes :
            Commit("EventDuringGeneration",
                   main(Interrupted(Session, ev, secrets, g1), ev2, secrets, g2))

(* Stage 1 *)
EditUrl ==
    /\ step = 1
    /\ \E u \in Urls : u # api_doc_url /\ Act("EditUrl", Input("url", u))

ClickAuth == step = 1 /\ \E a \in AuthMethods : Act("ClickAuth", Input("auth", a))

ClickGenerate == step = 1 /\ Act("ClickGenerate", Event("generate"))

(* Stage 2: the button is rendered after the generation, line 778 *)
ClickReview == step = 2 /\ ~Crashed /\ Act("ClickReview", Event("review"))

(* Stage 3 *)
ClickBack == step = 3 /\ ~Crashed /\ Act("ClickBack", Event("back"))

ClickTestInSandbox == step = 3 /\ ~Crashed /\ Act("ClickTestInSandbox", Event("to_sandbox"))

(* Stage 4 *)
ClickRunTests == step = 4 /\ Act("ClickRunTests", Event("run_tests"))

ClickBackToCode == step = 4 /\ Act("ClickBackToCode", Event("back_to_code"))

ClickDeployFwd ==
    /\ step = 4
    /\ "run_tests_first" \notin surfaced    \* else the button is rendered disabled
    /\ Act("ClickDeployFwd", Event("deploy_fwd"))

(* Stage 5 *)
DeployOffered == step = 5 /\ ~Crashed

ClickDeploy == DeployOffered /\ Act("ClickDeploy", Event("deploy"))

(* The button exists only in the page a deploy click rendered, line 1022 *)
StartNewOffered == "start_new_button" \in surfaced

ClickStartNew == StartNewOffered /\ Act("ClickStartNew", Event("start_new"))

(* Stages 1 and 5: the select boxes, check boxes and radio, which only rerun *)
ClickOther == step \in {1, 5} /\ ~Crashed /\ Act("ClickOther", Event("other"))

Next ==
    \/ EnterKey
    \/ EventDuringGeneration
    \/ EditUrl
    \/ ClickAuth
    \/ ClickGenerate
    \/ ClickReview
    \/ ClickBack
    \/ ClickTestInSandbox
    \/ ClickRunTests
    \/ ClickBackToCode
    \/ ClickDeployFwd
    \/ ClickDeploy
    \/ ClickStartNew
    \/ ClickOther

Spec == Init /\ [][Next]_vars

-----------------------------------------------------------------------------
(* The text functions on their own: Init draws a text, the actions apply   *)
(* extract_insights and analyze_code_quality to it.                        *)

BoundedSeq(S, n) == UNION {[1..k -> S] : k \in 0..n}

(* Fixed beginnings, so that texts passing three and all six checks occur *)
Bases == {<<>>,
          <<"try:", "os.environ", "except">>,
          <<"try:", "os.environ", "except", "cursor", "429", "logger">>}

Texts == {b \o t : b \in Bases, t \in BoundedSeq(Fragments, MaxLen)}

InitText ==
    /\ generated_code \in {Some(t) : t \in Texts}
    /\ step = 3
    /\ api_doc_url = DefaultUrl
    /\ auth_method = "OAuth 2.0"
    /\ sandbox_passed = FALSE
    /\ ai_insights = <<>>
    /\ anthropic_key = ""
    /\ url_widget = {}
    /\ key_widget = ""
    /\ secrets = "absent"
    /\ surfaced = {}
    /\ last = "open"
    /\ calls = <<>>
    /\ visit_tested = FALSE
    /\ ever_tested = FALSE
    /\ code_tested = FALSE
    /\ quality_report = {}
    /\ capability_text = None

ExtractText ==
    /\ \E t \in generated_code : ai_insights' = extract_insights(t, api_doc_url)
    /\ last' = "extract_insights"
    /\ UNCHANGED <<step, generated_code, api_doc_url, auth_method, sandbox_passed,
                   anthropic_key, url_widget, key_widget, secrets, surfaced, calls,
                   visit_tested, ever_tested, code_tested, quality_report,
                   capability_text>>

AnalyzeText ==
    /\ quality_report' = {Report(t) : t \in generated_code}
    /\ last' = "analyze_code_quality"
    /\ UNCHANGED <<step, generated_code, api_doc_url, auth_method, sandbox_passed,
                   ai_insights, anthropic_key, url_widget, key_widget, secrets,
                   surfaced, calls, visit_tested, ever_tested, code_tested,
                   capability_text>>

NextText == ExtractText \/ AnalyzeText

SpecText == InitText /\ [][NextText]_vars

TypeOK ==
    /\ step \in 1..MaxSteps
    /\ generated_code \in {None} \cup {Some(t) : t \in CapTexts \cup {DemoCode}}
    /\ api_doc_url \in Urls
    /\ auth_method \in AuthMethods
    /\ sandbox_passed \in BOOLEAN
    /\ anthropic_key \in Keys
    /\ key_widget \in Keys
    /\ secrets \in SecretStates

-----------------------------------------------------------------------------
(* Properties *)

(* The last user action executed the handler `what` *)
Ran(what) == \E i \in 1..Len(calls) : calls[i] = what

(* The fields of st.session_state *)
session_state == <<step, generated_code, api_doc_url, auth_method,
                   sandbox_passed, ai_insights, anthropic_key>>

(* C1: in every reachable state, step = 5 implies sandbox_passed. *)
C1_DeployStageImpliesSandboxPassed == step = 5 => sandbox_passed

C1_Witness == step = 5 /\ sandbox_passed /\ last = "ClickDeployFwd"

(* C2 as stated: in every state the deploy action can be invoked; where     *)
(* sandbox_passed is false it is refused with a PreconditionError, where    *)
(* sandbox_passed is true it reports success.                               *)
C2_Original ==
    LET r == main(Session, Event("deploy"), secrets, CHOOSE g \in Outcomes : TRUE)
    IN  /\ DeployOffered
        /\ IF sandbox_passed
           THEN "deploy_success" \in r.surfaced
           ELSE "precondition_error" \in r.surfaced

(* C2 amended: the deploy action is offered only at stage 5, where          *)
(* sandbox_passed holds; every deploy action reports success, reports no    *)
(* precondition error and leaves every session field unchanged.             *)
C2_DeployOnlyWhenPassedAndCosmetic ==
    [][last' = "ClickDeploy" =>
          /\ step = 5 /\ sandbox_passed
          /\ "deploy_success" \in surfaced'
          /\ "precondition_error" \notin surfaced'
          /\ session_state' = session_state]_vars

C2_Witness == last = "ClickDeploy" /\ "deploy_success" \in surfaced /\ sandbox_passed

(* C3 as stated: every step change 4 -> 5 is preceded, since the most       *)
(* recent entry into step 4, by a completed run-tests action.               *)
C3_Original == [][(step = 4 /\ step' = 5) => visit_tested]_vars

(* C3 amended: every step change 4 -> 5 is preceded by a completed          *)
(* run-tests action since sandbox_passed was last cleared, in this or in an *)
(* earlier visit to the Sandbox stage.                                      *)
C3_DeployFwdAfterSomeTestRun == [][(step = 4 /\ step' = 5) => ever_tested]_vars

C3_Witness == step = 5 /\ last = "ClickDeployFwd" /\ ~visit_tested /\ ever_tested

(* C4 as stated: step stays, advances, or is reset to 1 by 'start new       *)
(* integration'; whenever it decreases, generated_code and sandbox_passed   *)
(* are cleared.                                                             *)
C4_Original ==
    [][step' < step =>
          /\ last' = "ClickStartNew" /\ step' = 1
          /\ generated_code' = None /\ ~sandbox_passed']_vars

(* C4 amended: step stays, advances by exactly one, is reset to 1 by 'start *)
(* new integration' with generated_code and sandbox_passed cleared, or goes *)
(* back by a Back button (3 -> 1, 4 -> 3), which leaves generated_code and  *)
(* sandbox_passed unchanged.                                                *)
C4_StepMoves ==
    [][/\ step' > step => step' = step + 1
       /\ step' < step =>
            \/ /\ last' = "ClickStartNew" /\ step' = 1
               /\ generated_code' = None /\ ~sandbox_passed'
            \/ /\ \/ last' = "ClickBack" /\ step = 3 /\ step' = 1
                  \/ last' = "ClickBackToCode" /\ step = 4 /\ step' = 3
               /\ generated_code' = generated_code
               /\ sandbox_passed' = sandbox_passed]_vars

C4_Witness == last = "ClickBack" /\ step = 1 /\ generated_code # None /\ sandbox_passed

(* C5: the 'start new integration' action leaves step = 1, generated_code   *)
(* None, sandbox_passed false and ai_insights empty.                        *)
C5_ResetClears ==
    [][last' = "ClickStartNew" =>
          /\ step' = 1 /\ generated_code' = None
          /\ ~sandbox_passed' /\ ai_insights' = <<>>]_vars

(* C6: after the 'start new integration' action the Configure stage is      *)
(* rendered and api_doc_url and auth_method hold the values they held       *)
(* before it.                                                               *)
C6_ConfigSurvivesReset ==
    [][last' = "ClickStartNew" =>
          /\ step' = 1
          /\ api_doc_url' = api_doc_url /\ auth_method' = auth_method]_vars

(* C7 as stated: the 'start new integration' action can be taken in every   *)
(* workflow state.                                                          *)
C7_Original == ENABLED ClickStartNew

(* C7 amended: the 'start new integration' action can be taken only at      *)
(* stage 5, on the page a deploy action has just rendered.                  *)
C7_ResetOfferedOnlyAfterDeploy ==
    ENABLED ClickStartNew => (step = 5 /\ last = "ClickDeploy")

C7_Witness == StartNewOffered /\ step = 5 /\ last = "ClickDeploy"

(* C8: in the run a 'start new integration' click triggers, the reset       *)
(* branch runs and the session ends with step = 1, generated_code None and  *)
(* sandbox_passed false.                                                    *)
C8_StartNewTakesEffect ==
    [][last' = "ClickStartNew" =>
          /\ \E i \in 1..Len(calls') : calls'[i] = "reset"
          /\ step' = 1 /\ generated_code' = None /\ ~sandbox_passed']_vars

(* C9: a forward click at Configure with an empty api_doc_url is refused:   *)
(* no session field changes.                                                *)
C9_EmptyUrlRefused ==
    [][(last' = "ClickGenerate" /\ step = 1 /\ api_doc_url = "") =>
          session_state' = session_state]_vars

(* C10: every action that invokes generate_integration_code, whatever the   *)
(* doc_url, auth_method, credential and capability outcome, ends without an *)
(* uncaught exception and with a non-empty generated text.                  *)
C10_GenerateNeverFails ==
    (\E i \in 1..Len(calls) : calls[i] = "generate") =>
        /\ ~Crashed
        /\ generated_code # None
        /\ generated_code # Some(<<>>)

C12_FailureGivesFallback ==
    Ran("capability_failed") =>
        generated_code = Some(DemoCode) /\ ai_insights = DemoInsights

C12_Witness ==
    /\ Ran("capability_failed")
    /\ last = "ClickGenerate" /\ step = 2
    /\ generated_code = Some(DemoCode) /\ "generation_error" \in surfaced

(* C13: between user actions generated_code and ai_insights come from the   *)
(* same generation: both initial, both the fallback's, or the capability's  *)
(* text with the insights extracted from it.                                *)
C13_CodeAndInsightsTogether ==
    \/ generated_code = None /\ ai_insights = <<>>
    \/ generated_code = Some(DemoCode) /\ ai_insights = DemoInsights
    \/ \E t \in CapTexts :
           generated_code = Some(t) /\ ai_insights = extract_insights(t, api_doc_url)

C13_Witness ==
    /\ last = "EventDuringGeneration"
    /\ \E t \in CapTexts : generated_code = Some(t) /\ t # <<>>
    /\ ai_insights # <<>>

(* The rank of an insight line in the fixed order oauth, cursor, offset,    *)
(* rate_limit, retry, method-count; 0 for a line that is none of them.      *)
LineRank(line) ==
    CASE line = OAuthLine -> 1
      [] line = CursorLine -> 2
      [] line = OffsetLine -> 3
      [] line = RateLimitLine -> 4
      [] line = RetryLine -> 5
      [] \E n \in 1..(MaxLen + 6) : line = MethodsLine(n) -> 6
      [] OTHER -> 0

(* C14: the lines extract_insights returns are a subsequence of the fixed   *)
(* order, each at most once, wherever the markers occur in the text.        *)
C14_InsightsInFixedOrder ==
    last = "extract_insights" =>
        /\ \A i \in 1..Len(ai_insights) : LineRank(ai_insights[i]) > 0
        /\ \A i, j \in 1..Len(ai_insights) :
               i < j => LineRank(ai_insights[i]) < LineRank(ai_insights[j])

C14_Witness ==
    /\ last = "extract_insights"
    /\ generated_code = Some(<<"def get_", "retry">>)
    /\ ai_insights = <<RetryLine, MethodsLine(1)>>

(* C16 as stated: the score analyze_code_quality returns is a number with   *)
(* one decimal, the rounding of passed / 6 * 10.                            *)
C16_Original ==
    \A q \in quality_report : q.score.num * 10 = q.shown * q.score.den

(* C16 amended: the score analyze_code_quality returns is exactly           *)
(* passed * 10 / 6, unrounded, for the number of Passed checks, so it lies  *)
(* in 0..10 and takes one of seven values; the value rounded to one decimal *)
(* is what Review shows.                                                    *)
C16_ScoreIsPassedOverSix ==
    \A q \in quality_report :
        LET passed == PassedCount(q.metrics)
        IN  /\ DOMAIN q.metrics = CheckNames
            /\ passed \in 0..6
            /\ q.score.num * 6 = passed * 10 * q.score.den
            /\ 0 <= q.score.num /\ q.score.num <= 10 * q.score.den
            /\ 2 * (q.shown * q.score.den - q.score.num * 10) <= q.score.den
            /\ 2 * (q.score.num * 10 - q.shown * q.score.den) <= q.score.den

C16_Witness ==
    /\ last = "analyze_code_quality"
    /\ \E q \in quality_report :
           PassedCount(q.metrics) = 1 /\ q.score = [num |-> 10, den |-> 6] /\ q.shown = 17

(* C17: the report on the fixed fallback text is Passed for all six checks  *)
(* with a score of 10.0.                                                    *)
C17_FallbackPassesAllChecks ==
    (step = 3 /\ generated_code = Some(DemoCode)) =>
        \A q \in quality_report :
            /\ \A n \in CheckNames : q.metrics[n] = "Passed"
            /\ q.score.num = 10 * q.score.den

(* C18: every run-tests action shows Passed for each of the four fixed test *)
(* cases, whatever generated_code is, and leaves sandbox_passed true.       *)
C18_RunTestsAlwaysPasses ==
    last = "ClickRunTests" =>
        /\ \A n \in {"Authentication", "Get Users", "Pagination", "Error Handling"} :
               TestLine(n, "Passed") \in surfaced
        /\ \A m \in surfaced : m \notin {TestLine(Tests[i].name, "Failed") : i \in 1..Len(Tests)}
        /\ sandbox_passed

C18_Witness ==
    /\ last = "ClickRunTests" /\ generated_code = Some(<<>>)
    /\ TestLine("Pagination", "Passed") \in surfaced /\ sandbox_passed

(* C19: sandbox_passed changes from false to true only by a completed       *)
(* run-tests action and from true to false only by the reset branch; every  *)
(* other action leaves it unchanged.                                        *)
C19_SandboxPassedWriters ==
    [][sandbox_passed' # sandbox_passed =>
          IF sandbox_passed'
          THEN last' = "ClickRunTests"
          ELSE \E i \in 1..Len(calls') : calls'[i] = "reset"]_vars

C19_Witness ==
    /\ sandbox_passed /\ last = "ClickTestInSandbox" /\ ever_tested /\ ~code_tested

(* C20: stage 5 is never entered with a generated_code produced after the   *)
(* last completed run-tests action.                                         *)
C20_DeployedCodeWasTested == step = 5 => code_tested
(* C21: the forward click from Generate to Review only changes step: it     *)
(* does not invoke generate_integration_code again, and generated_code and  *)
(* ai_insights on arrival at Review are those stored before the click.      *)
C21_ForwardClickOnlyChangesStep ==
    [][(last' = "ClickReview" /\ step' = 3) =>
          /\ Count(calls', "generate") = 0
          /\ generated_code' = generated_code
          /\ ai_insights' = ai_insights]_vars

(* C22: one user action, with the reruns it causes, changes step at most    *)
(* once and invokes generate_integration_code at most once.                 *)
C22_OneStepOneGeneration ==
    [][/\ Count(calls', "generate") <= 1
       /\ Count(calls', "step") <= 1
       /\ (step' # step /\ last' # "EventDuringGeneration") => Count(calls', "step") = 1
       /\ (step' = step /\ last' # "EventDuringGeneration") => Count(calls', "step") = 0]_vars

C22_Witness ==
    /\ last = "ClickReview" /\ step = 3
    /\ Count(calls, "generate") = 1 /\ Count(calls, "step") = 1

(* C23: when the capability returns a text t without failure, the stored    *)
(* generated_code is t unchanged and ai_insights is extract_insights(t, url) *)
C23_ReturnedTextAndItsInsights ==
    \A t \in capability_text :
        /\ generated_code = Some(t)
        /\ ai_insights = extract_insights(t, api_doc_url)

C23_Witness ==
    /\ last = "ClickGenerate"
    /\ capability_text = Some(<<"OAUTH", "retry", "RateLimit">>)
    /\ generated_code = capability_text
    /\ ai_insights = <<RateLimitLine, RetryLine>>

(* The lines of an insight list *)
Lines(insights) == {insights[i] : i \in 1..Len(insights)}

(* C24: extract_insights emits the line of a marker in {oauth, cursor,      *)
(* offset, rate_limit, retry} iff the marker occurs in the text in any      *)
(* casing, and for no other trigger; it emits the method-count line iff the *)
(* number of get_ and list_ definitions is positive, reporting that number. *)
C24_MarkersCaseInsensitive ==
    last = "extract_insights" =>
        \A t \in generated_code :
            LET n == Count(t, "def get_") + Count(t, "def list_")
            IN  /\ OAuthLine \in Lines(ai_insights) <=> ContainsLower(t, "oauth")
                /\ CursorLine \in Lines(ai_insights) <=> ContainsLower(t, "cursor")
                /\ OffsetLine \in Lines(ai_insights) <=> ContainsLower(t, "offset")
                /\ RateLimitLine \in Lines(ai_insights) <=> ContainsLower(t, "rate_limit")
                /\ RetryLine \in Lines(ai_insights) <=> ContainsLower(t, "retry")
                /\ (n > 0) <=> (\E l \in Lines(ai_insights) : LineRank(l) = 6)
                /\ (n > 0) => MethodsLine(n) \in Lines(ai_insights)

(* C25: each status analyze_code_quality returns is Passed exactly when the *)
(* stated condition of its check holds, the logging check being 'logging'   *)
(* or 'logger' in any casing, and Warning otherwise.                        *)
C25_StatusesFollowStatedConditions ==
    last = "analyze_code_quality" =>
        \A t \in generated_code : \A q \in quality_report :
            q.metrics =
                [security |-> Status(Contains(t, "os.environ") /\ ~ContainsLower(t, "hardcode")),
                 error_handling |-> Status(Contains(t, "try:") /\ Contains(t, "except")),
                 pagination |-> Status(ContainsLower(t, "pagination") \/ ContainsLower(t, "cursor")),
                 rate_limiting |-> Status(ContainsLower(t, "rate_limit") \/ Contains(t, "429")),
                 logging |-> Status(ContainsLower(t, "logging") \/ ContainsLower(t, "logger")),
                 best_practices |-> Status(Contains(t, "type hints") \/ Contains(HeadOf(t), ":"))]

(* C27: in every reachable state, step >= 3 implies generated_code is not   *)
(* None.                                                                    *)
C27_LateStagesHaveCode == step >= 3 => generated_code # None

C27_Witness ==
    /\ step = 3 /\ last = "ClickBackToCode" /\ generated_code # None /\ sandbox_passed

(* Every user action at stage 5 leaves the session at stage 5 *)
C28_StageFiveIsClosed == step = 5 => ~ENABLED (Next /\ step' # 5)

(* C28: the workflow has no dead end; in particular a session at stage 5,   *)
(* where the deploy action reports success, has a user action that leads    *)
(* out of stage 5, towards a fresh Configure stage.                         *)
C28_NoDeadEnd == step = 5 => ENABLED (Next /\ step' # 5)
====
